---- MODULE Spec2Model ----
(***************************************************************************)
(* Model of command.py: the grammar compiler (_Part, Command), the         *)
(* argument matcher (_Part.match), the command matcher (_Wrapper.__call__) *)
(* and the dispatcher (resolve), driven by App.main.                       *)
(*                                                                         *)
(* A syntax string is represented by its structure: a sequence of part     *)
(* sources, each [brackets, alts], where brackets says the part is         *)
(* enclosed in '[' ']' and alts are the '|'-separated alternatives, each   *)
(* [enclosed, text] with enclosed saying the alternative is written        *)
(* '<text>'.  A user input is the sequence of its whitespace-separated     *)
(* tokens.  Python's None is the empty sequence, a present value x is      *)
(* <<x>>.                                                                  *)
(***************************************************************************)
EXTENDS Integers, Sequences, FiniteSets, TLC

\* ---------------------------------------------------------------- bounds
\* longest user input, in tokens
MaxLen == 3
\* number of inputs App.main reads in one run
MaxCycles == 2
\* number of calls of resolve made by the other thread
MaxOther == 1
\* the words a user may type
Tokens == {"set", "onlykey", "help"}

\* ------------------------------------------------------------- constants
_INITIAL_BADNESS == 10000
\* sys.maxsize: only its being larger than any list length matters
maxsize == 2147483647

None == <<>>
Some(x) == <<x>>

Max(a, b) == IF a >= b THEN a ELSE b
InSeq(x, s) == \E k \in 1..Len(s) : s[k] = x

\* ------------------------------------------------------- syntax notation
Lit(text) == [enclosed |-> FALSE, text |-> text]
Free(name) == [enclosed |-> TRUE, text |-> name]
Mand(alts) == [brackets |-> FALSE, alts |-> alts]
Opt(alts) == [brackets |-> TRUE, alts |-> alts]
\* stands where an error message names no part
NoPart == [brackets |-> FALSE, alts |-> <<>>]

\* ------------------------------------------------------------- _Argument
_Argument(value, name) == [value |-> value, name |-> name]

\* ----------------------------------------------------------------- _Part
\* the free name after the comprehension of _Part.__init__: an enclosed
\* alternative sets it only while it is still empty
RECURSIVE part_free_name(_)
part_free_name(alts) ==
    IF alts = <<>> THEN ""
    ELSE IF Head(alts).enclosed /\ Head(alts).text # ""
         THEN Head(alts).text
         ELSE part_free_name(Tail(alts))

\* the hard-coded options: every alternative not enclosed in '<' '>'
RECURSIVE part_options(_)
part_options(alts) ==
    IF alts = <<>> THEN <<>>
    ELSE IF Head(alts).enclosed
         THEN part_options(Tail(alts))
         ELSE <<Head(alts).text>> \o part_options(Tail(alts))

_Part(part) ==
    [_str      |-> part,
     mandatory |-> ~part.brackets,
     free_name |-> part_free_name(part.alts),
     options   |-> part_options(part.alts)]

\* ------------------------------------------------------- _ParsingError's
Message(kind, value, part, name) ==
    [kind |-> kind, value |-> value, part |-> part, name |-> name]

_InvalidOption(part, value) ==
    [type    |-> "_InvalidOption",
     message |-> Message("Invalid option", value, part._str, None),
     badness |-> 3]

_MissingMandatory(part) ==
    [type    |-> "_MissingMandatory",
     message |-> Message("Missing mandatory argument", "", part._str, None),
     badness |-> 4]

_Redundant(value) ==
    [type    |-> "_Redundant",
     message |-> Message("Redundant argument", value, NoPart, None),
     badness |-> 4]

InvalidSyntax(argument) ==
    [type    |-> "InvalidSyntax",
     message |-> Message("Invalid syntax at", argument.value, NoPart, None),
     badness |-> 4]

InvalidArgValue(argument) ==
    [type    |-> "InvalidArgValue",
     message |-> Message("Invalid value of argument", argument.value, NoPart,
                         argument.name),
     badness |-> 1]

InvalidCommandValue(command) ==
    [type    |-> "InvalidCommandValue",
     message |-> Message("Invalid value of command", command.value, NoPart,
                         command.name),
     badness |-> 2]

\* the exceptions a handler may raise that __call__ catches
Taxonomy == {"InvalidSyntax", "InvalidArgValue", "InvalidCommandValue"}

\* ----------------------------------------------------------- _Part.match
\* [raised, arg]: the exception raised (None when it returns) and the
\* _Argument returned
match_free_first(part, user_part) ==
    IF part.free_name # "" /\ user_part # ""
    THEN [raised |-> None, arg |-> _Argument(user_part, Some(part.free_name))]
    ELSE IF InSeq(user_part, part.options)
    THEN [raised |-> None, arg |-> _Argument(user_part, None)]
    ELSE IF ~part.mandatory
    THEN [raised |-> None, arg |-> _Argument("", None)]
    ELSE [raised |-> Some(_InvalidOption(part, user_part)),
          arg |-> _Argument("", None)]

match(part, user_part) ==
    IF InSeq(user_part, part.options)
    THEN [raised |-> None, arg |-> _Argument(user_part, None)]
    ELSE IF part.free_name # "" /\ user_part # ""
    THEN [raised |-> None, arg |-> _Argument(user_part, Some(part.free_name))]
    ELSE IF ~part.mandatory
    THEN [raised |-> None, arg |-> _Argument("", None)]
    ELSE [raised |-> Some(_InvalidOption(part, user_part)),
          arg |-> _Argument("", None)]

\* ------------------------------------------------ _Wrapper._log_exception
\* the first-exception slot after logging `exception`
log_exception_first_only(first_exception, exception) ==
    IF first_exception = None THEN Some(exception) ELSE first_exception

_log_exception(first_exception, exception) ==
    IF first_exception = None
    THEN Some(exception)
    ELSE Some([first_exception[1] EXCEPT
                   !.badness = Max(first_exception[1].badness,
                                   exception.badness)])

\* ------------------------------------------------------ _Wrapper.__call__
\* The state of the argument walk: the lookahead buffer user_arg, the
\* number user_args_index of tokens pulled, the resolved arguments, the
\* first-exception slot and the badness counter.  logged lists every
\* exception passed to _log_exception and trace records every iteration
\* of the for-loop; stopped is set by the break.
walk_start(resolved_args, badness) ==
    [user_arg |-> None, user_args_index |-> 0,
     resolved_args |-> resolved_args, first_exception |-> None,
     badness |-> badness, logged |-> <<>>, trace |-> <<>>,
     stopped |-> FALSE]

Iteration(p, faced, index, outcome, kept) ==
    [part |-> p, faced |-> faced, index |-> index, outcome |-> outcome,
     kept |-> kept]

\* a successful match of a part: a nonempty value consumes the buffered
\* token and lowers the badness, an empty one keeps the token
walk_matched_always_consume(st, p, user_arg, index, arg) ==
    [st EXCEPT !.user_arg = None,
               !.user_args_index = index,
               !.resolved_args = Append(@, arg),
               !.badness = IF arg.value # "" THEN @ - 1 ELSE @,
               !.trace = Append(@, Iteration(p, user_arg, index,
                             IF arg.value # "" THEN "matched" ELSE "skipped",
                             None))]

walk_matched_drop_empty(st, p, user_arg, index, arg) ==
    IF arg.value # ""
    THEN [st EXCEPT !.user_arg = None,
                    !.user_args_index = index,
                    !.resolved_args = Append(@, arg),
                    !.badness = @ - 1,
                    !.trace = Append(@, Iteration(p, user_arg, index,
                                                  "matched", None))]
    ELSE [st EXCEPT !.user_arg = user_arg,
                    !.user_args_index = index,
                    !.trace = Append(@, Iteration(p, user_arg, index,
                                                  "skipped", user_arg))]

walk_matched(st, p, user_arg, index, arg) ==
    IF arg.value # ""
    THEN [st EXCEPT !.user_arg = None,
                    !.user_args_index = index,
                    !.resolved_args = Append(@, arg),
                    !.badness = @ - 1,
                    !.trace = Append(@, Iteration(p, user_arg, index,
                                                  "matched", None))]
    ELSE [st EXCEPT !.user_arg = user_arg,
                    !.user_args_index = index,
                    !.resolved_args = Append(@, arg),
                    !.trace = Append(@, Iteration(p, user_arg, index,
                                                  "skipped", user_arg))]

\* a failed match of a part: the error is logged and the buffered token is
\* dropped, as if it had matched
walk_rejected_keep_token(st, p, user_arg, index, e) ==
    [st EXCEPT !.first_exception = _log_exception(@, e),
               !.logged = Append(@, e),
               !.user_arg = user_arg,
               !.user_args_index = index,
               !.trace = Append(@, Iteration(p, user_arg, index, "error",
                                             user_arg))]

walk_rejected(st, p, user_arg, index, e) ==
    [st EXCEPT !.first_exception = _log_exception(@, e),
               !.logged = Append(@, e),
               !.user_arg = None,
               !.user_args_index = index,
               !.trace = Append(@, Iteration(p, user_arg, index, "error",
                                             None))]

\* one iteration of the for-loop over self._args, for the part at index p
walk_part(st, part, p, user_args) ==
    LET pull     == st.user_arg = None /\ st.user_args_index < Len(user_args)
        user_arg == IF pull THEN Some(user_args[st.user_args_index + 1])
                    ELSE st.user_arg
        index    == IF pull THEN st.user_args_index + 1
                    ELSE st.user_args_index
    IN  IF user_arg = None /\ part.mandatory
        THEN [st EXCEPT
                !.first_exception = _log_exception(@, _MissingMandatory(part)),
                !.logged = Append(@, _MissingMandatory(part)),
                !.stopped = TRUE,
                !.trace = Append(@, Iteration(p, None, index, "missing",
                                              None))]
        ELSE LET m == match(part, IF user_arg = None THEN "" ELSE user_arg[1])
             IN  IF m.raised # None
                 THEN walk_rejected(st, p, user_arg, index, m.raised[1])
                 ELSE walk_matched(st, p, user_arg, index, m.arg)

RECURSIVE walk(_, _, _, _)
walk(st, args, p, user_args) ==
    IF p > Len(args) \/ st.stopped THEN st
    ELSE walk(walk_part(st, args[p], p, user_args), args, p + 1, user_args)

\* the check for a surplus token after the loop
walk_redundant_buffer_only(st, user_args) ==
    IF st.user_arg # None
    THEN [st EXCEPT
            !.first_exception = _log_exception(@, _Redundant(st.user_arg[1])),
            !.logged = Append(@, _Redundant(st.user_arg[1]))]
    ELSE st

walk_redundant(st, user_args) ==
    IF st.user_arg # None
    THEN [st EXCEPT
            !.first_exception = _log_exception(@, _Redundant(st.user_arg[1])),
            !.logged = Append(@, _Redundant(st.user_arg[1]))]
    ELSE IF st.user_args_index < Len(user_args)
    THEN [st EXCEPT
            !.first_exception =
                _log_exception(@, _Redundant(user_args[st.user_args_index + 1])),
            !.logged = Append(@, _Redundant(user_args[st.user_args_index + 1]))]
    ELSE st

\* the exception a handler raises to reject its arguments
handler_exception(outcome, resolved_args) ==
    LET last  == IF resolved_args = <<>> THEN _Argument("", None)
                 ELSE resolved_args[Len(resolved_args)]
        first == IF resolved_args = <<>> THEN _Argument("", None)
                 ELSE resolved_args[1]
    IN  CASE outcome = "InvalidSyntax" -> InvalidSyntax(last)
          [] outcome = "InvalidArgValue" -> InvalidArgValue(last)
          [] outcome = "InvalidCommandValue" -> InvalidCommandValue(first)

\* the resolved arguments the walk starts from
seed_if_captured(command, resolved_command) ==
    IF resolved_command.name # None \/ ~command.mandatory
    THEN <<resolved_command>> ELSE <<>>

seed(command, resolved_command) ==
    IF command.free_name # "" \/ ~command.mandatory
    THEN <<resolved_command>> ELSE <<>>

\* the command part rejected the command token: the _ParsingError of match
\* is swallowed and the call returns False
call_rejected_raises(badness, raised) ==
    [result |-> "raise",
     first_exception |-> Some([raised EXCEPT !.badness = @ + badness]),
     badness |-> badness, handler_calls |-> 0, resolved_command |-> None,
     resolved_args |-> <<>>, logged |-> <<raised>>, trace |-> <<>>]

call_rejected(badness, raised) ==
    [result |-> "False", first_exception |-> None,
     badness |-> badness, handler_calls |-> 0, resolved_command |-> None,
     resolved_args |-> <<>>, logged |-> <<>>, trace |-> <<>>]

\* whether the handler is invoked after the walk
run_handler_always(first_exception) == TRUE

run_handler(first_exception) == first_exception = None

\* The result of a call of the wrapper `self`, whose counter holds
\* `badness`, on user_list = <<user_command>> \o user_args, when the
\* handler, if it is invoked, ends with `outcome`:
\*   result           "False", "True", "raise" (a _ParsingError) or
\*                    "foreign" (another exception leaves the handler)
\*   first_exception  self._first_exception when the call ends
\*   badness          self._badness when the call ends
\*   handler_calls    how many times self._handler was invoked
\*   resolved_command what match returned for the command token
call(self, badness, user_list, outcome) ==
    LET user_command == user_list[1]
        user_args    == Tail(user_list)
        m            == match(self._command, user_command)
    IN  IF m.raised # None
        THEN call_rejected(badness, m.raised[1])
        ELSE
        LET b0  == IF InSeq(user_command, self._command.options)
                   THEN badness - 3 ELSE badness
            w   == walk_redundant(
                       walk(walk_start(seed(self._command, m.arg), b0),
                            self._args, 1, user_args),
                       user_args)
            run == run_handler(w.first_exception)
            h   == IF run /\ outcome \in Taxonomy
                   THEN [w EXCEPT
                           !.first_exception = _log_exception(@,
                               handler_exception(outcome, w.resolved_args)),
                           !.logged = Append(@,
                               handler_exception(outcome, w.resolved_args))]
                   ELSE w
            base == [badness |-> h.badness,
                     handler_calls |-> IF run THEN 1 ELSE 0,
                     resolved_command |-> Some(m.arg),
                     resolved_args |-> h.resolved_args,
                     logged |-> h.logged, trace |-> h.trace]
        IN  IF run /\ outcome = "foreign"
            THEN [result |-> "foreign", first_exception |-> None] @@ base
            ELSE IF h.first_exception # None
            THEN [result |-> "raise",
                  first_exception |->
                      Some([h.first_exception[1] EXCEPT
                               !.badness = @ + h.badness])] @@ base
            ELSE [result |-> "True", first_exception |-> None] @@ base

\* ------------------------------------------- Command, _Descriptor, _Wrapper
\* the part compiled from the empty string: ''.split('|') is ['']
EmptyPart == Mand(<<Lit("")>>)

\* Command.__init__: the first part of the syntax is the command, the
\* others are the arguments; the empty syntax has the empty command
Command(syntax) ==
    IF syntax = <<>>
    THEN [command |-> _Part(EmptyPart), args |-> <<>>, _str |-> syntax]
    ELSE [command |-> _Part(Head(syntax)),
          args |-> [k \in 1..(Len(syntax) - 1) |-> _Part(syntax[k + 1])],
          _str |-> syntax]

\* a handler: its name and the ways an invocation of it may end
Handler(outcomes) == [name |-> "user", outcomes |-> outcomes]
_exit == [name |-> "_exit", outcomes |-> {"ok"}]
_help == [name |-> "_help", outcomes |-> {"ok"}]

\* the wrapper of a handler decorated with @Command(syntax)
_Wrapper(syntax, handler) ==
    [_command |-> Command(syntax).command,
     _args    |-> Command(syntax).args,
     _handler |-> handler,
     _syntax  |-> Command(syntax)._str]

\* -------------------------------------------------------------------- App
\* list.insert(position, x)
insert(lst, position, x) ==
    LET k == IF position > Len(lst) THEN Len(lst) ELSE position
    IN  SubSeq(lst, 1, k) \o <<x>> \o SubSeq(lst, k + 1, Len(lst))

insert_cmd(lst, handler, syntax, position) ==
    IF syntax # <<>> THEN insert(lst, position, _Wrapper(syntax, handler))
    ELSE lst

RECURSIVE not_ignored(_)
not_ignored(methods) ==
    IF methods = <<>> THEN <<>>
    ELSE IF Head(methods).ignore THEN not_ignored(Tail(methods))
         ELSE <<_Wrapper(Head(methods).syntax, Head(methods).handler)>>
              \o not_ignored(Tail(methods))

\* App.__init__: the command list of an application whose class defines
\* `methods` (in order of definition)
App_command_list(methods, s_exit, p_exit, s_help, p_help) ==
    LET lst == not_ignored(methods)
    IN  IF p_exit >= p_help
        THEN insert_cmd(insert_cmd(lst, _help, s_help, p_help),
                        _exit, s_exit, p_exit)
        ELSE insert_cmd(insert_cmd(lst, _exit, s_exit, p_exit),
                        _help, s_help, p_help)

\* ----------------------------------------------------- the applications
Method(syntax, outcomes) ==
    [syntax |-> syntax, handler |-> Handler(outcomes), ignore |-> FALSE]
Ignored(syntax) ==
    [syntax |-> syntax, handler |-> Handler({"ok"}), ignore |-> TRUE]

s_exit_default == <<Mand(<<Lit("e"), Lit("exit")>>)>>
s_help_default == <<Mand(<<Lit("h"), Lit("help")>>)>>

\* 'set <k> <v>' and an unrelated 'set|help help'
SetApp ==
    [methods |-> <<Method(<<Mand(<<Lit("set")>>), Mand(<<Free("k")>>),
                            Mand(<<Free("v")>>)>>,
                          {"ok", "InvalidArgValue"}),
                   Method(<<Mand(<<Lit("set"), Lit("help")>>),
                            Mand(<<Lit("help")>>)>>, {"ok"})>>,
     s_exit |-> s_exit_default, p_exit |-> maxsize,
     s_help |-> s_help_default, p_help |-> maxsize]

\* '<x> [set]': a free command ahead of the help command
FreeApp ==
    [methods |-> <<Method(<<Mand(<<Free("x")>>), Opt(<<Lit("set")>>)>>,
                          {"ok", "InvalidCommandValue", "foreign"})>>,
     s_exit |-> s_exit_default, p_exit |-> maxsize,
     s_help |-> s_help_default, p_help |-> maxsize]

\* 'set|<x> [onlykey] <y>' and the empty syntax, without a help command
WalkApp ==
    [methods |-> <<Method(<<Mand(<<Lit("set"), Free("x")>>),
                            Opt(<<Lit("onlykey")>>), Mand(<<Free("y")>>)>>,
                          {"ok", "InvalidSyntax"}),
                   Method(<<>>, {"ok"})>>,
     s_exit |-> s_exit_default, p_exit |-> 0,
     s_help |-> <<>>, p_help |-> maxsize]

\* 'set onlykey <y>' alone, without a help command
BareApp ==
    [methods |-> <<Ignored(<<Mand(<<Free("x")>>)>>),
                   Method(<<Mand(<<Lit("set")>>), Mand(<<Lit("onlykey")>>),
                            Mand(<<Free("y")>>)>>,
                          {"ok"})>>,
     s_exit |-> s_exit_default, p_exit |-> maxsize,
     s_help |-> <<>>, p_help |-> maxsize]

\* '[set] [<y>]': an optional command, behind a help command put first
OptApp ==
    [methods |-> <<Method(<<Opt(<<Lit("set")>>), Opt(<<Free("y")>>)>>,
                          {"ok"})>>,
     s_exit |-> s_exit_default, p_exit |-> maxsize,
     s_help |-> s_help_default, p_help |-> 0]

Apps == {SetApp, FreeApp, WalkApp, BareApp, OptApp}

\* the lines a user may type: up to MaxLen tokens
Inputs == UNION {[1..n -> Tokens] : n \in 0..MaxLen}

\* ------------------------------------------------------------------ state
VARIABLES
    app,               \* the arguments App.__init__ was given
    command_list,      \* App.command_list
    _badness,          \* _Wrapper._badness of every wrapper of the list
    _first_exception,  \* _Wrapper._first_exception of every wrapper
    _help_search,      \* resolve._help_search
    running,           \* App.running
    surfaced,          \* an exception has left App.main
    stack,             \* the calls of resolve in progress, innermost last
    log,               \* what the current input has caused so far
    cycles,            \* the number of inputs read
    other              \* a call of resolve on another registry, made by
                       \* another thread

vars == <<app, command_list, _badness, _first_exception, _help_search,
          running, surfaced, stack, log, cycles, other>>

Top == stack[Len(stack)]
SetTop(activation) == SubSeq(stack, 1, Len(stack) - 1) \o <<activation>>

\* user_input.split() or ['']
split(user_input) == IF user_input = <<>> THEN <<"">> ELSE user_input

\* a call of resolve that has just tokenized its input
Activation(user_list) ==
    [user_list |-> user_list, i |-> 1, logged_exceptions |-> <<>>,
     pc |-> "for"]

Printed(what, data) == [ev |-> "print", what |-> what, data |-> data]

\* ------------------------------------------------ resolve._print_exceptions
sort_none(exceptions) == exceptions

\* exceptions.sort(key=badness): the sort is stable
RECURSIVE sort(_)
sort(exceptions) ==
    IF exceptions = <<>> THEN <<>>
    ELSE LET n      == Len(exceptions)
             e      == exceptions[n]
             before == sort(SubSeq(exceptions, 1, n - 1))
             k      == Cardinality({j \in 1..(n - 1) :
                                       before[j].badness <= e.badness})
         IN  SubSeq(before, 1, k) \o <<e>> \o SubSeq(before, k + 1, n - 1)

\* the messages printed: of equal messages only the first is kept
_print_exceptions(exceptions) ==
    LET sorted   == sort(exceptions)
        to_print == {i \in 1..Len(sorted) :
                        \A j \in 1..(i - 1) :
                            sorted[j].message # sorted[i].message}
        nth(k)   == CHOOSE i \in to_print :
                        Cardinality({j \in to_print : j < i}) = k - 1
    IN  [k \in 1..Cardinality(to_print) |-> sorted[nth(k)].message]

\* ---------------------------------------------------------------- resolve
\* the activation after command_wrapper(*user_list) ended with result r
\* (True: return; a _ParsingError: record it; False: next command)
after_call_no_return(activation, r) ==
    IF r.result = "raise"
    THEN [activation EXCEPT
            !.logged_exceptions = Append(@, r.first_exception[1]),
            !.i = @ + 1, !.pc = "for"]
    ELSE [activation EXCEPT !.i = @ + 1, !.pc = "for"]

after_call(activation, r) ==
    IF r.result = "True"
    THEN [activation EXCEPT !.pc = "return"]
    ELSE IF r.result = "raise"
    THEN [activation EXCEPT
            !.logged_exceptions = Append(@, r.first_exception[1]),
            !.i = @ + 1, !.pc = "for"]
    ELSE [activation EXCEPT !.i = @ + 1, !.pc = "for"]

Attempt(depth, i, user_list, badness, outcome, r) ==
    [ev |-> "attempt", depth |-> depth, cmd |-> i, user_list |-> user_list,
     badness_in |-> badness, badness_out |-> r.badness,
     outcome |-> IF r.handler_calls = 1 THEN outcome ELSE "not run",
     result |-> r.result,
     handler_calls |-> r.handler_calls,
     resolved_command |-> r.resolved_command,
     resolved_args |-> r.resolved_args,
     logged |-> r.logged, trace |-> r.trace, raised |-> r.first_exception]

\* what the handler of a wrapper prints when it is invoked
handler_output(wrapper, r) ==
    IF r.handler_calls = 1 /\ wrapper._handler.name = "_help"
    THEN <<Printed("Available commands:", <<>>)>>
    ELSE <<>>

\* ---------------------------------------------------------------- actions
\* cls._help_search = True; resolve(command_list, 'help')
start_help_unguarded ==
    /\ _help_search' = _help_search
    /\ stack' = SetTop([Top EXCEPT !.pc = "help"])
                \o <<Activation(split(<<"help">>))>>

start_help_same_input ==
    /\ _help_search' = TRUE
    /\ stack' = SetTop([Top EXCEPT !.pc = "help"])
                \o <<Activation(Top.user_list)>>

start_help ==
    /\ _help_search' = TRUE
    /\ stack' = SetTop([Top EXCEPT !.pc = "help"])
                \o <<Activation(split(<<"help">>))>>

\* the other thread between two calls of resolve: the number of calls it
\* has made and what the last one printed
OtherIdle(calls, said) == [pc |-> "idle", calls |-> calls, said |-> said]

Init ==
    /\ app \in Apps
    /\ command_list = App_command_list(app.methods, app.s_exit, app.p_exit,
                                       app.s_help, app.p_help)
    /\ _badness = [i \in 1..Len(command_list) |-> _INITIAL_BADNESS]
    /\ _first_exception = [i \in 1..Len(command_list) |-> None]
    /\ _help_search = FALSE
    /\ running = TRUE
    /\ surfaced = FALSE
    /\ stack = <<>>
    /\ log = <<>>
    /\ cycles = 0
    /\ other = OtherIdle(0, "")

\* App.main: read a line and call resolve on it
main(user_input) ==
    /\ stack = <<>>
    /\ running
    /\ ~surfaced
    /\ cycles < MaxCycles
    /\ stack' = <<Activation(split(user_input))>>
    /\ cycles' = cycles + 1
    /\ log' = <<>>
    /\ UNCHANGED <<app, other, command_list, _badness, _first_exception,
                   _help_search, running, surfaced>>

\* resolve calls the next wrapper, which first empties its error slot
call_enter ==
    /\ stack # <<>>
    /\ Top.pc = "for"
    /\ Top.i <= Len(command_list)
    /\ _first_exception' = [_first_exception EXCEPT ![Top.i] = None]
    /\ stack' = SetTop([Top EXCEPT !.pc = "call"])
    /\ UNCHANGED <<app, other, command_list, _badness, _help_search, running,
                   surfaced, log, cycles>>

\* the rest of the call of the wrapper, and what resolve does with its
\* result
call_body(outcome) ==
    /\ stack # <<>>
    /\ Top.pc = "call"
    /\ outcome \in command_list[Top.i]._handler.outcomes
    /\ LET wrapper == command_list[Top.i]
           r == call(wrapper, _badness[Top.i], Top.user_list, outcome)
       IN  /\ _badness' = [_badness EXCEPT ![Top.i] = r.badness]
           /\ _first_exception' =
                  [_first_exception EXCEPT ![Top.i] = r.first_exception]
           /\ log' = Append(log, Attempt(Len(stack), Top.i, Top.user_list,
                                         _badness[Top.i], outcome, r))
                     \o handler_output(wrapper, r)
           /\ running' = IF r.handler_calls = 1
                            /\ wrapper._handler.name = "_exit"
                         THEN FALSE ELSE running
           /\ IF r.result = "foreign"
              THEN stack' = <<>> /\ surfaced' = TRUE
              ELSE stack' = SetTop(after_call(Top, r)) /\ surfaced' = surfaced
    /\ UNCHANGED <<app, other, command_list, _help_search, cycles>>

\* no command returned True in a call made to find the help command
no_additional_help ==
    /\ stack # <<>>
    /\ Top.pc = "for"
    /\ Top.i > Len(command_list)
    /\ _help_search
    /\ log' = Append(log, Printed("No additional help found.", <<>>))
    /\ stack' = SetTop([Top EXCEPT !.pc = "return"])
    /\ UNCHANGED <<app, other, command_list, _badness, _first_exception,
                   _help_search, running, surfaced, cycles>>

\* no command returned True and some raised: print why, then call resolve
\* on 'help'
print_exceptions_and_help ==
    /\ stack # <<>>
    /\ Top.pc = "for"
    /\ Top.i > Len(command_list)
    /\ Top.logged_exceptions # <<>>
    /\ ~_help_search
    /\ log' = Append(log, Printed("exceptions",
                                  _print_exceptions(Top.logged_exceptions)))
    /\ start_help
    /\ UNCHANGED <<app, other, command_list, _badness, _first_exception, running,
                   surfaced, cycles>>

\* no command accepted the command token: name it, then call resolve on
\* 'help'
unknown_command_and_help ==
    /\ stack # <<>>
    /\ Top.pc = "for"
    /\ Top.i > Len(command_list)
    /\ Top.logged_exceptions = <<>>
    /\ ~_help_search
    /\ log' = IF Top.user_list[1] # ""
              THEN Append(log, Printed("Unknown command",
                                       <<Top.user_list[1]>>))
              ELSE log
    /\ start_help
    /\ UNCHANGED <<app, other, command_list, _badness, _first_exception, running,
                   surfaced, cycles>>

\* the call made to find the help command returns to resolve, which
\* clears the flag and returns
return_from_help ==
    /\ Len(stack) > 1
    /\ Top.pc = "return"
    /\ _help_search' = FALSE
    /\ stack' = SubSeq(stack, 1, Len(stack) - 2)
                \o <<[stack[Len(stack) - 1] EXCEPT !.pc = "return"]>>
    /\ UNCHANGED <<app, other, command_list, _badness, _first_exception, running,
                   surfaced, log, cycles>>

\* resolve returns to App.main
return_to_main ==
    /\ Len(stack) = 1
    /\ Top.pc = "return"
    /\ stack' = <<>>
    /\ UNCHANGED <<app, other, command_list, _badness, _first_exception,
                   _help_search, running, surfaced, log, cycles>>

Next ==
    \/ \E user_input \in Inputs : main(user_input)
    \/ call_enter
    \/ \E outcome \in {"ok", "foreign"} \cup Taxonomy : call_body(outcome)
    \/ no_additional_help
    \/ print_exceptions_and_help
    \/ unknown_command_and_help
    \/ return_from_help
    \/ return_to_main

Spec == Init /\ [][Next]_vars

\* ------------------------------------------------------ a second registry
\* Another thread calls resolve on a registry of its own, which has a help
\* command, with an input on which every command of that registry fails.
\* Only resolve._help_search is shared with the calls of App.main.

\* the loop of the other call has ended without success: it reads the
\* flag, and either prints the terminal message and returns, or prints
\* its diagnostic
other_fails ==
    /\ other.pc = "idle"
    /\ other.calls < MaxOther
    /\ other' = IF _help_search
                THEN OtherIdle(other.calls + 1, "No additional help found.")
                ELSE [pc |-> "set", calls |-> other.calls + 1,
                      said |-> "diagnostic"]
    /\ UNCHANGED <<app, command_list, _badness, _first_exception,
                   _help_search, running, surfaced, stack, log, cycles>>

\* cls._help_search = True, before the other call calls resolve on 'help'
other_sets_guard ==
    /\ other.pc = "set"
    /\ _help_search' = TRUE
    /\ other' = [other EXCEPT !.pc = "help"]
    /\ UNCHANGED <<app, command_list, _badness, _first_exception, running,
                   surfaced, stack, log, cycles>>

\* the help command of the other registry has run and returned True;
\* cls._help_search = False
other_help_returns ==
    /\ other.pc = "help"
    /\ _help_search' = FALSE
    /\ other' = OtherIdle(other.calls, "diagnostic and help")
    /\ UNCHANGED <<app, command_list, _badness, _first_exception, running,
                   surfaced, stack, log, cycles>>

NextThreads ==
    \/ Next
    \/ other_fails
    \/ other_sets_guard
    \/ other_help_returns

\* the applications run beside the other thread: one without a help
\* command, whose search for help fails, and one with
InitThreads == Init /\ app \in {BareApp, FreeApp}

SpecThreads == InitThreads /\ [][NextThreads]_vars

\* ------------------------------------------------------------- properties
\* the positions in the log of the calls of wrappers made by the call of
\* resolve at depth d (1: the call of App.main, 2: the call made to find
\* the help command)
Attempts(d) ==
    {k \in 1..Len(log) : log[k].ev = "attempt" /\ log[k].depth = d}
AllAttempts == Attempts(1) \cup Attempts(2)

\* the command part accepts the token
accepts(part, token) == match(part, token).raised = None

\* the call of resolve at depth d has left its loop or is about to
Returning(d) == Len(stack) < d \/ stack[d].pc = "return"

\* C1: within one call of resolve the wrappers are called in the order of
\* the command list, none skipped, and once a call returns True no other
\* wrapper of the list is called by that call of resolve, which returns
\* without starting a search for help.
C1_FirstMatchStops ==
    \A d \in 1..2 :
        \A k \in Attempts(d) :
            /\ log[k].cmd = Cardinality({j \in Attempts(d) : j <= k})
            /\ log[k].result = "True" =>
                   /\ \A j \in Attempts(d) : j <= k
                   /\ Returning(d)
                   /\ Attempts(d + 1) = {}

C1_Witness ==
    /\ stack = <<>>
    /\ \E k \in Attempts(1) :
           /\ log[k].result = "True"
           /\ log[k].cmd > 1
           /\ log[k].cmd < Len(command_list)

\* C2 as stated: if a call of resolve succeeds, exactly one handler was
\* run during it and it belongs to the first command of the list whose
\* command part accepts the first token.
C2_Original ==
    \A d \in 1..2 :
        \A k \in Attempts(d) :
            log[k].result = "True" =>
                /\ {j \in Attempts(d) : log[j].handler_calls = 1} = {k}
                /\ \A i \in 1..(log[k].cmd - 1) :
                       ~accepts(command_list[i]._command, log[k].user_list[1])

\* C2 amended: if a call of resolve succeeds, exactly one handler returned
\* normally during it, and it belongs to the first command of the list
\* whose call returns True: its command part accepts the first token and
\* no error was logged.  Every earlier command either rejected the first
\* token (False) or accepted it and raised a _ParsingError; a handler run
\* by an earlier command raised an exception of the taxonomy.
C2_FirstSuccessWins ==
    \A d \in 1..2 :
        \A k \in Attempts(d) :
            log[k].result = "True" =>
                /\ {j \in Attempts(d) : log[j].handler_calls = 1
                                        /\ log[j].result = "True"} = {k}
                /\ log[k].handler_calls = 1
                /\ log[k].logged = <<>>
                /\ accepts(command_list[log[k].cmd]._command,
                           log[k].user_list[1])
                /\ \A i \in 1..(log[k].cmd - 1) :
                       \E j \in Attempts(d) :
                           /\ j < k
                           /\ log[j].cmd = i
                           /\ log[j].result =
                                  IF accepts(command_list[i]._command,
                                             log[k].user_list[1])
                                  THEN "raise" ELSE "False"
                           /\ log[j].handler_calls = 1 =>
                                  /\ Len(log[j].logged) = 1
                                  /\ log[j].logged[1].type \in Taxonomy

\* a call of resolve succeeded after the handler of an earlier candidate
\* had run and raised
C2_Witness ==
    \E k \in Attempts(1) :
        /\ log[k].result = "True"
        /\ \E j \in Attempts(1) :
               /\ j < k
               /\ log[j].handler_calls = 1
               /\ log[j].result = "raise"

\* C3: when a wrapper is called, after it has emptied its error slot, the
\* slot is empty and its badness counter is _INITIAL_BADNESS.
C3_StateResetEveryAttempt ==
    (stack # <<>> /\ Top.pc = "call") =>
        /\ _first_exception[Top.i] = None
        /\ _badness[Top.i] = _INITIAL_BADNESS

\* the last thing printed is the terminal message
SaidNoAdditionalHelp ==
    /\ log # <<>>
    /\ log[Len(log)] = Printed("No additional help found.", <<>>)

\* C4: the search for help nests one level at most.  At most two calls of
\* resolve are in progress; the inner one runs with the flag set under a
\* caller waiting for it; and when it ends without a call returning True
\* (whether it collected errors or found no candidate) it has printed
\* 'No additional help found.' and started no further call.
C4_HelpNestsOnce ==
    /\ Len(stack) <= 2
    /\ Len(stack) = 2 => _help_search /\ stack[1].pc = "help"
    /\ Attempts(3) = {}
    /\ (/\ Len(stack) = 2
        /\ Top.pc = "return"
        /\ \A k \in Attempts(2) : log[k].result # "True")
           => SaidNoAdditionalHelp

\* the inner call collected an error, found no command returning True
\* and has printed the terminal message
C4_Witness ==
    /\ Len(stack) = 2
    /\ Top.pc = "return"
    /\ Top.logged_exceptions # <<>>
    /\ SaidNoAdditionalHelp

\* C5: whenever no call of resolve is in progress the flag is clear.
C5_GuardClearedAfterHelp == stack = <<>> => ~_help_search

\* ------------------------------------------------------ help after failure
\* the application has the help command 'h|help' at its default position
DefaultHelp ==
    /\ app.s_help = s_help_default
    /\ app.p_help = maxsize

\* the wrappers of the help handler in the command list
HelpCommands ==
    {i \in 1..Len(command_list) : command_list[i]._handler.name = "_help"}

\* the call of App.main tried every command and none returned True
TopLevelFailed ==
    /\ Cardinality(Attempts(1)) = Len(command_list)
    /\ \A k \in Attempts(1) : log[k].result \in {"False", "raise"}

\* the help handler ran exactly once, after everything else was printed
HelpRanOnceAfterDiagnostic ==
    \E k \in AllAttempts :
        /\ log[k].cmd \in HelpCommands
        /\ log[k].handler_calls = 1
        /\ log[k].result = "True"
        /\ \A j \in AllAttempts :
               (log[j].cmd \in HelpCommands /\ log[j].handler_calls = 1)
                   => j = k
        /\ \A j \in 1..Len(log) :
               (log[j].ev = "print" /\ log[j].what # "Available commands:")
                   => j < k
        /\ log[Len(log)] = Printed("Available commands:", <<>>)

\* C6 as stated: with the help command 'h|help' at its default position,
\* every input on which no command succeeds ends (resolve returns to
\* App.main) with the help handler having run exactly once after the
\* diagnostic.
C6_Original ==
    (DefaultHelp /\ stack = <<>> /\ ~surfaced /\ TopLevelFailed)
        => HelpRanOnceAfterDiagnostic

\* in the search for help a command ahead of the help command took the
\* input 'help' for itself: its handler ran and raised no _ParsingError
HelpTaken ==
    \E j \in Attempts(2) :
        /\ \A h \in HelpCommands : log[j].cmd < h
        /\ log[j].result \in {"True", "foreign"}

\* C6 amended: the same, unless in the search for help a command ahead of
\* the help command accepts the input 'help' and its handler runs without
\* raising a _ParsingError.
C6_HelpAfterFailure ==
    (DefaultHelp /\ stack = <<>> /\ TopLevelFailed /\ ~HelpTaken)
        => HelpRanOnceAfterDiagnostic

\* a failed input has been answered by the diagnostic and the help, though
\* a command ahead of the help command ran its handler on 'help'
C6_Witness ==
    /\ DefaultHelp
    /\ stack = <<>>
    /\ TopLevelFailed
    /\ HelpRanOnceAfterDiagnostic
    /\ \E j \in 1..Len(log) : log[j].ev = "print" /\ log[j].what = "exceptions"
    /\ \E j \in Attempts(2) : log[j].result = "raise"
                              /\ log[j].handler_calls = 1

\* ------------------------------------------------------ the command matcher
\* the wrapper called by the attempt at position k of the log, and the
\* command token it was given
WrapperOf(k) == command_list[log[k].cmd]
TokenOf(k) == log[k].user_list[1]

\* C7 as stated: every call of a wrapper ends in one of three ways.  It
\* returns False iff the command part rejects the command token, and then
\* no handler ran, nothing is raised and the badness counter is unchanged;
\* it raises a _ParsingError iff the command part accepted the token and
\* at least one error was logged; otherwise it returns True, after the
\* handler ran exactly once.
C7_Original ==
    \A k \in AllAttempts :
        LET acc == accepts(WrapperOf(k)._command, TokenOf(k))
        IN  /\ log[k].result \in {"False", "raise", "True"}
            /\ log[k].result = "False" <=> ~acc
            /\ log[k].result = "False" =>
                   /\ log[k].handler_calls = 0
                   /\ log[k].raised = None
                   /\ log[k].badness_out = log[k].badness_in
            /\ log[k].result = "raise" <=> (acc /\ log[k].logged # <<>>)
            /\ log[k].result = "True" <=> (acc /\ log[k].logged = <<>>)
            /\ log[k].result = "True" => log[k].handler_calls = 1

\* C7 amended: there is a fourth way.  When the command part accepted the
\* token and no error was logged, the handler ran exactly once, and the
\* call returns True unless the handler raised an exception outside the
\* taxonomy, which leaves the call.
C7_FourOutcomes ==
    \A k \in AllAttempts :
        LET acc == accepts(WrapperOf(k)._command, TokenOf(k))
        IN  /\ log[k].result \in {"False", "raise", "True", "foreign"}
            /\ log[k].result = "False" <=> ~acc
            /\ log[k].result = "False" =>
                   /\ log[k].handler_calls = 0
                   /\ log[k].raised = None
                   /\ log[k].badness_out = log[k].badness_in
            /\ log[k].result = "raise" <=> (acc /\ log[k].logged # <<>>)
            /\ log[k].result = "raise" =>
                   /\ log[k].raised # None
                   /\ log[k].raised[1].message = log[k].logged[1].message
            /\ log[k].result \in {"True", "foreign"}
                   <=> (acc /\ log[k].logged = <<>>)
            /\ log[k].result \in {"True", "foreign"} =>
                   /\ log[k].handler_calls = 1
                   /\ log[k].raised = None
            /\ log[k].result = "foreign" <=>
                   (log[k].handler_calls = 1 /\ log[k].outcome = "foreign")

\* one input has met a rejection, a handler raising an exception of the
\* taxonomy and a handler raising another exception
C7_Witness ==
    /\ \E k \in AllAttempts : log[k].result = "False"
    /\ \E k \in AllAttempts : log[k].result = "raise"
                              /\ log[k].handler_calls = 1
    /\ \E k \in AllAttempts : log[k].result = "foreign"

\* ----------------------------------------------------- the argument matcher
\* what a call of part.match(token) did (rejected: it raised; arg: what it
\* returned otherwise) follows the priority: a literal first, then the
\* free slot for a nonempty token, then the empty argument of an optional
\* part, then rejection
Priority(part, token, rejected, arg) ==
    LET literal == InSeq(token, part.options)
        capture == part.free_name # "" /\ token # ""
    IN  /\ literal => (~rejected /\ arg = Some(_Argument(token, None)))
        /\ (~literal /\ capture) =>
               (~rejected
                /\ arg = Some(_Argument(token, Some(part.free_name))))
        /\ (~literal /\ ~capture /\ ~part.mandatory) =>
               (~rejected /\ arg = Some(_Argument("", None)))
        /\ (~literal /\ ~capture /\ part.mandatory) => rejected
        /\ rejected => (part.mandatory /\ arg = None)
        /\ (token = "" /\ ~rejected) => arg[1].name = None

\* the position in resolved_args of the value of iteration n of the
\* attempt at k: an iteration that logged an error appended nothing
ValueAt(k, n) ==
    (Len(log[k].resolved_args)
        - Cardinality({j \in 1..Len(log[k].trace) :
                          log[k].trace[j].outcome \in {"matched", "skipped"}}))
    + Cardinality({j \in 1..n :
                      log[k].trace[j].outcome \in {"matched", "skipped"}})

\* C8: every call of match made by an attempt, on the command token or on
\* a buffered argument token (the empty string when the buffer is empty),
\* follows the strict priority: a token equal to a literal option yields
\* it with no slot name, also when the part has a free slot; any other
\* nonempty token is captured by the free slot, if there is one, under the
\* slot's name; else an optional part yields the empty argument; else
\* _InvalidOption of badness 3 is raised.  So only mandatory parts raise
\* and the empty token is never captured.
C8_MatchPriority ==
    \A k \in AllAttempts :
        /\ Priority(WrapperOf(k)._command, TokenOf(k),
                    log[k].result = "False", log[k].resolved_command)
        /\ \A n \in 1..Len(log[k].trace) :
               LET it    == log[k].trace[n]
                   part  == WrapperOf(k)._args[it.part]
                   token == IF it.faced = None THEN "" ELSE it.faced[1]
               IN  it.outcome # "missing" =>
                       /\ Priority(part, token, it.outcome = "error",
                              IF it.outcome = "error" THEN None
                              ELSE Some(log[k].resolved_args[ValueAt(k, n)]))
                       /\ it.outcome = "error" =>
                              \E e \in 1..Len(log[k].logged) :
                                  /\ log[k].logged[e]
                                         = _InvalidOption(part, token)
                                  /\ log[k].logged[e].badness = 3

\* a command part with a literal and a free slot was given its literal,
\* which went on unnamed, and an optional argument part of the same
\* command skipped a token that a free slot then captured
C8_Witness ==
    \E k \in AllAttempts :
        /\ WrapperOf(k)._command.free_name # ""
        /\ InSeq(TokenOf(k), WrapperOf(k)._command.options)
        /\ log[k].resolved_command = Some(_Argument(TokenOf(k), None))
        /\ \E n \in 1..Len(log[k].trace) :
               /\ log[k].trace[n].outcome = "skipped"
               /\ log[k].trace[n].faced # None
        /\ \E n \in 1..Len(log[k].trace) :
               /\ log[k].trace[n].outcome = "matched"
               /\ log[k].resolved_args[ValueAt(k, n)].name # None

\* ------------------------------------------------------ the command's value
\* the handler was invoked by the attempt at k
Invoked(k) == log[k].handler_calls = 1
\* ... and received the command's own value ahead of one value per argument
\* part
Seeded(k) ==
    /\ Len(log[k].resolved_args) = Len(WrapperOf(k)._args) + 1
    /\ log[k].resolved_args[1] = match(WrapperOf(k)._command, TokenOf(k)).arg
Unseeded(k) == Len(log[k].resolved_args) = Len(WrapperOf(k)._args)

\* C9 as stated: the handler receives the command's own value first iff
\* the command token was captured by the free slot of the command part or
\* the command part is optional; a literal of a mandatory part is never
\* passed.
C9_Original ==
    \A k \in AllAttempts :
        Invoked(k) =>
            IF \/ match(WrapperOf(k)._command, TokenOf(k)).arg.name # None
               \/ ~WrapperOf(k)._command.mandatory
            THEN Seeded(k) ELSE Unseeded(k)

\* C9 amended: the handler receives the command's own value first iff the
\* command part declares a free slot or is optional, whatever the token
\* matched: a literal of a part that also has a free slot is passed, with
\* no slot name.  Only a mandatory part of literals alone passes nothing.
C9_SeededByGrammar ==
    \A k \in AllAttempts :
        Invoked(k) =>
            IF \/ WrapperOf(k)._command.free_name # ""
               \/ ~WrapperOf(k)._command.mandatory
            THEN Seeded(k) ELSE Unseeded(k)

\* a handler has received the literal typed for a part with a free slot
C9_Witness ==
    \E k \in AllAttempts :
        /\ Invoked(k)
        /\ WrapperOf(k)._command.mandatory
        /\ InSeq(TokenOf(k), WrapperOf(k)._command.options)
        /\ Seeded(k)
        /\ log[k].resolved_args[1] = _Argument(TokenOf(k), None)

\* ------------------------------------------------------------ optional skip
\* the part walked by iteration n of the attempt at k
PartOf(k, n) == WrapperOf(k)._args[log[k].trace[n].part]

\* the part can neither take the buffered token as a literal nor capture it
NoMatch(part, faced) ==
    \/ faced = None
    \/ /\ ~InSeq(faced[1], part.options)
       /\ (part.free_name = "" \/ faced[1] = "")

\* C10: when an optional part faces a token that is none of its literals
\* and that it cannot capture, or no token at all, it resolves to the empty
\* value, the token stays in the buffer without another being pulled, and
\* the next part faces that same token; after the last part the token is
\* reported as redundant.  A skip neither consumes nor drops a token.
C10_OptionalSkipKeepsToken ==
    \A k \in AllAttempts :
        \A n \in 1..Len(log[k].trace) :
            LET it   == log[k].trace[n]
                part == PartOf(k, n)
                base == Len(log[k].resolved_args) - Len(log[k].trace)
            IN  (~part.mandatory /\ NoMatch(part, it.faced)) =>
                    /\ it.outcome = "skipped"
                    /\ it.kept = it.faced
                    /\ n < Len(log[k].trace) =>
                           /\ log[k].trace[n + 1].faced = it.faced
                           /\ log[k].trace[n + 1].index = it.index
                           /\ log[k].trace[n + 1].part = it.part + 1
                    /\ (n = Len(log[k].trace) /\ it.faced # None) =>
                           \E e \in 1..Len(log[k].logged) :
                               log[k].logged[e] = _Redundant(it.faced[1])

\* an optional part skipped a token which the next part then matched
C10_Witness ==
    \E k \in AllAttempts :
        \E n \in 1..(Len(log[k].trace) - 1) :
            /\ ~PartOf(k, n).mandatory
            /\ log[k].trace[n].outcome = "skipped"
            /\ log[k].trace[n].faced # None
            /\ log[k].trace[n + 1].outcome = "matched"
            /\ log[k].trace[n + 1].faced = log[k].trace[n].faced
            /\ Invoked(k)

\* ------------------------------------------------------------------ ranking
\* the weight of the error raised by the attempt at k
Weight(k) == log[k].raised[1].badness

\* the iterations of the attempt at k that ran before its first error
BeforeFailure(k) ==
    {n \in 1..Len(log[k].trace) :
        \A j \in 1..n : log[k].trace[j].outcome \in {"matched", "skipped"}}

\* the number of user tokens the attempt at k consumed correctly before
\* its first error: the command token, if the command part took it as its
\* value, and every argument token matched by a part until then
Consumed(k) ==
    (IF log[k].resolved_command # None
        /\ log[k].resolved_command[1].value # "" THEN 1 ELSE 0)
    + Cardinality({n \in BeforeFailure(k) :
                      log[k].trace[n].outcome = "matched"})

\* C11: of two candidates that fail on the same input in one call of
\* resolve, the one that consumed strictly more tokens correctly before
\* failing raises an error whose weight is not larger.
C11_MonotonicRanking ==
    \A d \in 1..2 :
        \A a \in Attempts(d) : \A b \in Attempts(d) :
            (/\ log[a].result = "raise"
             /\ log[b].result = "raise"
             /\ Consumed(a) > Consumed(b))
                => Weight(a) <= Weight(b)

\* C12: in SetApp, whose first command is 'set <k> <v>' and whose second is
\* the unrelated one with an argument part rejecting 'onlykey', whenever the input 'set onlykey' has been tried on both
\* commands, 'set <k> <v>' raised _MissingMandatory for <v> and the
\* unrelated command raised _InvalidOption for 'onlykey', and the weight
\* of the former is strictly lower, whatever was dispatched before.
C12_SetRanksBelowUnrelated ==
    app = SetApp =>
        \A a \in Attempts(1) : \A b \in Attempts(1) :
            (/\ log[a].user_list = <<"set", "onlykey">>
             /\ log[a].cmd = 1
             /\ log[b].cmd = 2)
                => /\ log[a].result = "raise"
                   /\ log[a].raised[1].message
                          = _MissingMandatory(WrapperOf(a)._args[2]).message
                   /\ log[b].result = "raise"
                   /\ log[b].raised[1].message
                          = _InvalidOption(WrapperOf(b)._args[1],
                                           "onlykey").message
                   /\ Weight(a) < Weight(b)

\* --------------------------------------------------------- the diagnostic
\* the attempts of the call of App.main that raised
Recorded == {k \in Attempts(1) : log[k].result = "raise"}

\* the positions in the log of the printed diagnostics
Diagnostics ==
    {j \in 1..Len(log) : log[j].ev = "print" /\ log[j].what = "exceptions"}

\* the lowest weight under which a message was raised
MinWeight(message) ==
    CHOOSE w \in {Weight(k) : k \in Recorded} :
        /\ \E k \in Recorded : log[k].raised[1].message = message
                               /\ Weight(k) = w
        /\ \A k \in Recorded : log[k].raised[1].message = message
                               => w <= Weight(k)

\* the call of App.main has tried every command, none succeeded, and it
\* has gone past its loop
TopLevelAnswered ==
    /\ TopLevelFailed
    /\ (stack = <<>> \/ stack[1].pc \in {"help", "return"})

\* C13: when the call of App.main ends its loop with no success and at
\* least one recorded error, one diagnostic is printed: it lists every
\* distinct message exactly once, in ascending order of weight, a message
\* raised by several candidates standing where its lowest weight puts it;
\* and every attempt of the search for help comes after the diagnostic.
C13_RankedDiagnostic ==
    (TopLevelAnswered /\ Recorded # {}) =>
        /\ Cardinality(Diagnostics) = 1
        /\ \A j \in Diagnostics :
               LET printed == log[j].data
               IN  /\ {printed[x] : x \in 1..Len(printed)}
                          = {log[k].raised[1].message : k \in Recorded}
                   /\ \A x \in 1..Len(printed) : \A y \in 1..Len(printed) :
                          x < y =>
                              /\ printed[x] # printed[y]
                              /\ MinWeight(printed[x]) <= MinWeight(printed[y])
                   /\ \A k \in Attempts(1) : k < j
                   /\ \A k \in Attempts(2) : j < k

\* a diagnostic of two messages was printed against the order of the
\* command list, and the search for help has run after it
C13_Witness ==
    /\ TopLevelAnswered
    /\ \E j \in Diagnostics :
           /\ Len(log[j].data) = 2
           /\ \E a \in Recorded : \E b \in Recorded :
                  /\ a < b
                  /\ log[b].raised[1].message = log[j].data[1]
                  /\ log[a].raised[1].message = log[j].data[2]
                  /\ Weight(b) < Weight(a)
    /\ Attempts(2) # {}

\* ------------------------------------------------- the representative error
\* the largest base weight among the errors logged by the attempt at k
MaxBase(k) ==
    CHOOSE w \in {log[k].logged[e].badness : e \in 1..Len(log[k].logged)} :
        \A e \in 1..Len(log[k].logged) : log[k].logged[e].badness <= w

\* C14: an attempt that logged errors raises the first one logged, its
\* message unchanged, with a weight equal to the largest base weight among
\* all the errors it logged plus the value of its badness counter when it
\* ends.
C14_FirstErrorMaxWeight ==
    \A k \in AllAttempts :
        (log[k].result # "False" /\ log[k].logged # <<>>) =>
            /\ log[k].result = "raise"
            /\ log[k].raised[1].type = log[k].logged[1].type
            /\ log[k].raised[1].message = log[k].logged[1].message
            /\ Weight(k) = MaxBase(k) + log[k].badness_out

\* an attempt logged an error and then a heavier one, and raised the first
\* under the weight of the second
C14_Witness ==
    \E k \in AllAttempts :
        /\ log[k].result = "raise"
        /\ Len(log[k].logged) >= 2
        /\ log[k].logged[1].badness < log[k].logged[2].badness
        /\ log[k].logged[1].message # log[k].logged[2].message
        /\ Weight(k) = log[k].logged[2].badness + log[k].badness_out

\* ------------------------------------------------------------ typo-tolerance
\* the argument tokens given to the attempt at k
ArgsOf(k) == Tail(log[k].user_list)

\* the position among the argument tokens of the first token that the walk
\* of the attempt at k neither matched nor dropped (beyond the last token
\* when there is none): the token an iteration skipped is still waiting,
\* any other iteration has used up the tokens pulled so far
SurplusPosition(k) ==
    IF log[k].trace = <<>> THEN 1
    ELSE LET last == log[k].trace[Len(log[k].trace)]
         IN  IF last.kept # None THEN last.index ELSE last.index + 1

\* the _Redundant errors logged by the attempt at k
Redundants(k) ==
    {e \in 1..Len(log[k].logged) : log[k].logged[e].type = "_Redundant"}

\* C15: when match rejects the buffered token for a part, the error is
\* logged and the token is dropped: the next part faces the next user
\* token (or none when the tokens are exhausted), the rejected token is not
\* the one reported as redundant, the walk goes on to the last part unless
\* a mandatory part finds no token, and the handler is not invoked.
C15_TypoTolerance ==
    \A k \in AllAttempts :
        \A n \in 1..Len(log[k].trace) :
            LET it == log[k].trace[n]
            IN  it.outcome = "error" =>
                    /\ it.faced # None
                    /\ it.faced[1] = ArgsOf(k)[it.index]
                    /\ \E e \in 1..Len(log[k].logged) :
                           log[k].logged[e]
                               = _InvalidOption(PartOf(k, n), it.faced[1])
                    /\ it.kept = None
                    /\ n < Len(log[k].trace) =>
                           LET next == log[k].trace[n + 1]
                           IN  /\ next.part = it.part + 1
                               /\ IF it.index < Len(ArgsOf(k))
                                  THEN /\ next.index = it.index + 1
                                       /\ next.faced
                                              = Some(ArgsOf(k)[it.index + 1])
                                  ELSE /\ next.index = it.index
                                       /\ next.faced = None
                    /\ n = Len(log[k].trace) =>
                           it.part = Len(WrapperOf(k)._args)
                    /\ SurplusPosition(k) > it.index
                    /\ log[k].handler_calls = 0
                    /\ log[k].result = "raise"

\* a part rejected a token and the next part matched the next token, a
\* different one
C15_Witness ==
    \E k \in AllAttempts :
        \E n \in 1..(Len(log[k].trace) - 1) :
            /\ log[k].trace[n].outcome = "error"
            /\ log[k].trace[n + 1].outcome = "matched"
            /\ log[k].trace[n + 1].faced # log[k].trace[n].faced
            /\ log[k].handler_calls = 0
            /\ log[k].result = "raise"

\* ------------------------------------------------------------ surplus tokens
\* the positions of the argument tokens that no iteration of the walk of
\* the attempt at k matched to a part or dropped after a rejection
Leftover(k) ==
    {i \in 1..Len(ArgsOf(k)) :
        ~\E n \in 1..Len(log[k].trace) :
            /\ log[k].trace[n].outcome \in {"matched", "error"}
            /\ log[k].trace[n].index = i}

\* the walk of the attempt at k stopped on a missing mandatory argument
StoppedOnMissing(k) ==
    \E n \in 1..Len(log[k].trace) : log[k].trace[n].outcome = "missing"

\* C16: an attempt whose command part accepted the token logs _Redundant,
\* of base weight 4, at most once: exactly when some argument token was
\* neither matched to a part nor dropped after a rejection, and for the
\* first such token in input order.  No _Redundant is logged when the walk
\* stopped on _MissingMandatory.
C16_OneRedundantForFirstSurplus ==
    \A k \in AllAttempts :
        log[k].result # "False" =>
            /\ Cardinality(Redundants(k)) <= 1
            /\ Redundants(k) # {} <=> Leftover(k) # {}
            /\ \A e \in Redundants(k) :
                   /\ \A i \in Leftover(k) : SurplusPosition(k) <= i
                   /\ SurplusPosition(k) \in Leftover(k)
                   /\ log[k].logged[e]
                          = _Redundant(ArgsOf(k)[SurplusPosition(k)])
                   /\ log[k].logged[e].badness = 4
            /\ StoppedOnMissing(k) => Redundants(k) = {}

\* two different tokens were left over and the first was reported
C16_Witness ==
    \E k \in AllAttempts :
        /\ Cardinality(Leftover(k)) >= 2
        /\ \E i \in Leftover(k) : ArgsOf(k)[i] # ArgsOf(k)[SurplusPosition(k)]
        /\ Cardinality(Redundants(k)) = 1
        /\ log[k].result = "raise"

\* ------------------------------------------------- the handler's arguments
\* the number of values passed ahead of the values of the argument parts
SeedCount(k) ==
    IF WrapperOf(k)._command.free_name # "" \/ ~WrapperOf(k)._command.mandatory
    THEN 1 ELSE 0

\* C18: an invoked handler receives the command's value, if it is seeded,
\* and then exactly one value per argument part, in the order of the
\* grammar: the empty string for a skipped optional part, otherwise the
\* user argument token the part faced.  No token is used twice and the
\* nonempty values follow the order of the tokens in the input.
C18_HandlerArguments ==
    \A k \in AllAttempts :
        Invoked(k) =>
            /\ Len(log[k].resolved_args)
                   = SeedCount(k) + Len(WrapperOf(k)._args)
            /\ Len(log[k].trace) = Len(WrapperOf(k)._args)
            /\ \A n \in 1..Len(log[k].trace) :
                   LET it == log[k].trace[n]
                       v  == log[k].resolved_args[SeedCount(k) + n]
                   IN  /\ it.part = n
                       /\ it.outcome \in {"matched", "skipped"}
                       /\ it.outcome = "skipped" <=> v.value = ""
                       /\ it.outcome = "skipped" => ~PartOf(k, n).mandatory
                       /\ it.outcome = "matched" =>
                              /\ it.index \in 1..Len(ArgsOf(k))
                              /\ v.value = ArgsOf(k)[it.index]
                              /\ \A m \in 1..(n - 1) :
                                     log[k].trace[m].outcome = "matched"
                                         => log[k].trace[m].index < it.index

\* a handler received the seeded command, the empty string of a skipped
\* optional part and the token that part had faced, matched by the next
C18_Witness ==
    \E k \in AllAttempts :
        /\ Invoked(k)
        /\ SeedCount(k) = 1
        /\ Len(log[k].resolved_args) = 3
        /\ log[k].resolved_args[2].value = ""
        /\ log[k].resolved_args[3].value = ArgsOf(k)[1]
        /\ Len(ArgsOf(k)) = 1

\* ------------------------------------------------------- guard per registry
\* the terminal message was printed by the call of App.main itself
TopLevelSaidNoHelp ==
    \E j \in 1..Len(log) :
        /\ log[j] = Printed("No additional help found.", <<>>)
        /\ \A k \in Attempts(2) : j < k

\* C17: a search for help in progress on one registry does not change what
\* a call of resolve on another registry does with a failing input: the
\* call of App.main prints its diagnostic (when errors were recorded) and
\* searches its own registry for help, and so does the call of the other
\* thread; neither prints 'No additional help found.' in place of that.
C17_GuardPerRegistry ==
    /\ other.said # "No additional help found."
    /\ TopLevelAnswered =>
           /\ ~TopLevelSaidNoHelp
           /\ Recorded # {} => Diagnostics # {}
           /\ Attempts(2) # {}

====
